---- MODULE Spec2Model ----
(***************************************************************************)
(* Dayflow HRMS (Django application dayflow_hrms/hrms).                    *)
(*                                                                         *)
(* State machine of the request handlers of hrms/views.py over the tables  *)
(* of hrms/models.py: the two-phase login (login_view, otp_verify_view),   *)
(* employee provisioning (add_user_view), attendance (check_in_view,       *)
(* check_out_view) and the leave workflow (apply_leave_view,               *)
(* approve_leave_view, reject_leave_view).                                 *)
(***************************************************************************)
EXTENDS Integers, Sequences, FiniteSets, TLC

VARIABLES
    now,            \* server clock (timezone.now()), in seconds
    otp,            \* CustomUser.otp, per user id
    otp_expiry,     \* CustomUser.otp_expiry, per user id
    session,        \* per browser session: otp_user_id slot and logged-in user
    confirmed,      \* history: user whose OTP was confirmed in the session
    resp,           \* outcome of the last handled request
    employee_ids,   \* CustomUser.employee_id column (unique)
    pc,             \* add_user_view requests in flight: position
    new_id,         \* add_user_view requests in flight: user.employee_id
    attendance,     \* Attendance table keyed by <<employee, date>>
    leave,          \* LeaveRequest table keyed by id
    profile,        \* EmployeeProfile table keyed by user
    payroll,        \* Payroll table: a set of rows
    att_rows,       \* Attendance table as a set of rows with primary keys
    inflight             \* concurrent attendance requests in flight: local state

vars == <<now, otp, otp_expiry, session, confirmed, resp, employee_ids,
          pc, new_id, attendance, leave, profile, payroll, att_rows, inflight>>

\* The tables of the payroll generator.
payroll_tables == <<profile, payroll>>

\* The state of the interleaved attendance requests.
race_state == <<att_rows, inflight>>

\* Python's None in a text or user-reference field.
None == "None"

\* A time or timestamp field that is NULL.
NoTime == -1

\* No employee_id (the empty text is never an identifier).
NoId == <<>>

(***************************************************************************)
(* Accounts: two rows of CustomUser, an employee and an admin.              *)
(***************************************************************************)
UserIds == {"emp", "hr"}

Role(u) == IF u = "hr" THEN "ADMIN" ELSE "EMPLOYEE"

is_admin(u) == Role(u) = "ADMIN"

is_employee(u) == Role(u) = "EMPLOYEE"

Email(u) == IF u = "emp" THEN "emp@x" ELSE "hr@x"

Password(u) == IF u = "emp" THEN "pw1" ELSE "pw2"

Sessions == {"s1", "s2"}

\* Inputs of the login form.
Emails == {Email(u) : u \in UserIds} \cup {"nobody@x"}

Passwords == {Password(u) : u \in UserIds}

\* One-time codes the generator can produce.
Codes == {"111111", "222222"}

\* Values a client can post in the otp field ('' when the field is absent).
EnteredCodes == Codes \cup {""}

OTP_TTL == 600

\* The clock of the login specification advances by the lifetime of a code,
\* at most MaxAuthTicks times.
AuthStep == OTP_TTL

MaxAuthTicks == 2

EmptySession == [otp_user_id |-> None, auth |-> None]

\* request.user.is_authenticated
is_authenticated(s) == session[s].auth # None

\* CustomUser.objects.get(email=email): the id, or None for DoesNotExist.
UserByEmail(email) ==
    IF \E u \in UserIds : Email(u) = email
    THEN CHOOSE u \in UserIds : Email(u) = email
    ELSE None

\* authenticate(request, username=..., password=...)
authenticate(u, password) == IF Password(u) = password THEN u ELSE None

\* Python truthiness of user.otp (a text or None).
Truthy(v) == v # None /\ v # ""


(***************************************************************************)
(* Identity and session: login_view and otp_verify_view.                   *)
(***************************************************************************)

\* CustomUser.generate_otp(): store a fresh code with expiry now + 10 min.
generate_otp_otp(u, code) == [otp EXCEPT ![u] = code]

generate_otp_expiry(u) == [otp_expiry EXCEPT ![u] = now + OTP_TTL]

SessionAfterPassword_LoggedIn(s, u) ==
    [session EXCEPT ![s].otp_user_id = u, ![s].auth = u]

\* request.session['otp_user_id'] = authenticated_user.id
SessionAfterPassword(s, u) == [session EXCEPT ![s].otp_user_id = u]

\* login_view, POST with a valid LoginForm.  mailOk is whether send_mail
\* returns (TRUE) or raises (FALSE).
BeginLogin(s, email, password, code, mailOk) ==
    LET user == UserByEmail(email)
        au   == IF user = None THEN None ELSE authenticate(user, password)
    IN  /\ IF is_authenticated(s)
           THEN /\ resp' = [op |-> "login", sess |-> s, outcome |-> "RedirectDashboard"]
                /\ UNCHANGED <<otp, otp_expiry, session>>
           ELSE IF au = None
           THEN /\ resp' = [op |-> "login", sess |-> s, outcome |-> "InvalidCredentials"]
                /\ UNCHANGED <<otp, otp_expiry, session>>
           ELSE /\ otp' = generate_otp_otp(au, code)
                /\ otp_expiry' = generate_otp_expiry(au)
                /\ session' = SessionAfterPassword(s, au)
                /\ resp' = [op |-> "login", sess |-> s,
                            outcome |-> IF mailOk THEN "OtpSent" ELSE "MailError"]
        /\ UNCHANGED <<payroll_tables, race_state, now, confirmed, employee_ids, pc, new_id, attendance, leave>>

OtpStillValid_NoExpiry(u) == Truthy(otp[u]) /\ otp_expiry[u] # NoTime

\* user.otp and user.otp_expiry and timezone.now() <= user.otp_expiry
OtpStillValid(u) ==
    /\ Truthy(otp[u])
    /\ otp_expiry[u] # NoTime
    /\ now <= otp_expiry[u]

\* The branch otp_verify_view takes on POST for pending user u.
OtpOutcome(u, entered) ==
    IF OtpStillValid(u)
    THEN IF otp[u] = entered THEN "Success" ELSE "Mismatch"
    ELSE "Expired"

SessionAfterConfirm_DropOnMismatch(s, u, outcome) ==
    CASE outcome = "Success" ->
            [session EXCEPT ![s].otp_user_id = None, ![s].auth = u]
      [] OTHER ->
            [session EXCEPT ![s].otp_user_id = None]

\* del request.session['otp_user_id'] and login(request, user), per branch.
SessionAfterConfirm(s, u, outcome) ==
    CASE outcome = "Success" ->
            [session EXCEPT ![s].otp_user_id = None, ![s].auth = u]
      [] outcome = "Expired" ->
            [session EXCEPT ![s].otp_user_id = None]
      [] OTHER -> session

OtpAfterConfirm_Kept(u, outcome) == [otp |-> otp, otp_expiry |-> otp_expiry]

\* user.otp = None, user.otp_expiry = None and user.save() on the success
\* branch of otp_verify_view; the other branches store nothing.
OtpAfterConfirm(u, outcome) ==
    IF outcome = "Success"
    THEN [otp        |-> [otp EXCEPT ![u] = None],
          otp_expiry |-> [otp_expiry EXCEPT ![u] = NoTime]]
    ELSE [otp |-> otp, otp_expiry |-> otp_expiry]

\* otp_verify_view.  method is the HTTP method, entered the posted otp field.
ConfirmOtp(s, method, entered) ==
    LET user_id == session[s].otp_user_id
    IN  /\ IF user_id = None
           THEN /\ resp' = [op |-> "confirm_otp", sess |-> s, outcome |-> "NoPendingSession"]
                /\ UNCHANGED <<otp, otp_expiry, session, confirmed>>
           ELSE IF method # "POST"
           THEN /\ resp' = [op |-> "confirm_otp", sess |-> s, method |-> method,
                            outcome |-> "OtpForm"]
                /\ UNCHANGED <<otp, otp_expiry, session, confirmed>>
           ELSE LET outcome == OtpOutcome(user_id, entered)
                IN  /\ otp' = OtpAfterConfirm(user_id, outcome).otp
                    /\ otp_expiry' = OtpAfterConfirm(user_id, outcome).otp_expiry
                    /\ session' = SessionAfterConfirm(s, user_id, outcome)
                    /\ confirmed' = IF outcome = "Success"
                                    THEN [confirmed EXCEPT ![s] = user_id]
                                    ELSE confirmed
                    /\ resp' = [op |-> "confirm_otp", sess |-> s, method |-> method,
                                entered |-> entered, outcome |-> outcome]
        /\ UNCHANGED <<payroll_tables, race_state, now, employee_ids, pc, new_id, attendance, leave>>

\* logout_view (behind login_required): logout() flushes the session.
Logout(s) ==
    /\ IF ~is_authenticated(s)
       THEN /\ resp' = [op |-> "logout", sess |-> s, outcome |-> "RedirectLogin"]
            /\ UNCHANGED <<session, confirmed>>
       ELSE /\ session' = [session EXCEPT ![s] = EmptySession]
            /\ confirmed' = [confirmed EXCEPT ![s] = None]
            /\ resp' = [op |-> "logout", sess |-> s, outcome |-> "LoggedOut"]
    /\ UNCHANGED <<payroll_tables, race_state, now, otp, otp_expiry, employee_ids, pc, new_id, attendance, leave>>

\* The clock of the login specification advances in steps of AuthStep.
TickAuth ==
    /\ now + AuthStep <= MaxAuthTicks * AuthStep
    /\ now' = now + AuthStep
    /\ resp' = [op |-> "tick"]
    /\ UNCHANGED <<payroll_tables, race_state, otp, otp_expiry, session, confirmed, employee_ids, pc, new_id,
                   attendance, leave>>


(***************************************************************************)
(* Attendance: check_in_view, check_out_view,                              *)
(* Attendance.calculate_hours_worked.                                      *)
(***************************************************************************)
DaySeconds == 86400

\* Number of calendar days the attendance clock covers.
NumDays == 2

Dates == 0 .. (NumDays - 1)

\* timezone.now().date() and timezone.now().time() of a clock value.
DateOf(t) == t \div DaySeconds

TimeOf(t) == t % DaySeconds

\* Longest time, in seconds, between the two clock reads of one request.
MaxGap == 1

\* Clock values the attendance specification visits: on day 0 the elapsed
\* times around the 4 h and 8 h thresholds, then the last second of each day
\* and midnight.
AttInstants ==
    {0, 14381, 14382, 14400, 28781, 28782, 28800}
        \cup {d * DaySeconds : d \in Dates}
        \cup {d * DaySeconds + (DaySeconds - 1) : d \in Dates}

\* Clock values a request can see at its second read, having seen `now` first.
SecondReads == {t \in AttInstants : now <= t /\ t <= now + MaxGap}

\* Table t with the row of key k inserted or replaced.
Put(t, k, row) == [x \in DOMAIN t \cup {k} |-> IF x = k THEN row ELSE t[x]]

\* round(secs / 3600, 2), in hundredths of an hour.  secs/36 is rounded to the
\* nearest integer; the ties that decide a status, 14382 s (3.995 h) and
\* 28782 s (7.995 h), are binary floats above the tie and round up.
Round2(secs) ==
    IF secs >= 0 THEN (secs + 18) \div 36 ELSE -(((-secs) + 18) \div 36)

\* Attendance.calculate_hours_worked, in hundredths of an hour.
calculate_hours_worked(row) ==
    IF row.check_in_time # NoTime /\ row.check_out_time # NoTime
    THEN Round2(row.check_out_time - row.check_in_time)
    ELSE 0

\* The status check_out_view derives from the hours worked.
StatusForHours(hours) ==
    IF hours >= 800 THEN "PRESENT"
    ELSE IF hours >= 400 THEN "HALF_DAY"
    ELSE "ABSENT"

CheckInBlocked_Never(k) == FALSE

CheckInBlocked_IfRowExists(k) == k \in DOMAIN attendance

\* `not created and attendance.check_in_time` of check_in_view, for the row
\* with key k.
CheckInBlocked(k) == k \in DOMAIN attendance /\ attendance[k].check_in_time # NoTime

\* check_in_view (POST, behind login_required).  t2 is the clock at the
\* second timezone.now() of the request.
CheckIn(s, t2) ==
    /\ t2 \in SecondReads
    /\ IF ~is_authenticated(s)
       THEN /\ resp' = [op |-> "check_in", sess |-> s, outcome |-> "RedirectLogin"]
            /\ UNCHANGED attendance
       ELSE LET employee     == session[s].auth
                today        == DateOf(now)
                current_time == TimeOf(t2)
                k            == <<employee, today>>
            IN  IF CheckInBlocked(k)
                THEN /\ resp' = [op |-> "check_in", sess |-> s, key |-> <<employee, today>>,
                                 outcome |-> "AlreadyCheckedIn"]
                     /\ UNCHANGED attendance
                ELSE /\ attendance' = Put(attendance, k,
                                [check_in_time  |-> current_time,
                                 check_out_time |-> IF k \in DOMAIN attendance
                                                    THEN attendance[k].check_out_time
                                                    ELSE NoTime,
                                 status         |-> "PRESENT"])
                     /\ resp' = [op |-> "check_in", sess |-> s, key |-> <<employee, today>>,
                                 outcome |-> "CheckedIn"]
    /\ now' = t2
    /\ UNCHANGED <<payroll_tables, race_state, otp, otp_expiry, session, confirmed, employee_ids, pc, new_id, leave>>

CheckOutGuard_NoCheckInTest(k) ==
    IF k \notin DOMAIN attendance THEN "NotCheckedInYet"
    ELSE IF attendance[k].check_out_time # NoTime THEN "AlreadyCheckedOut"
    ELSE "Ok"

\* The guard check_out_view stops at for the row with key k, or "Ok".
CheckOutGuard(k) ==
    IF k \notin DOMAIN attendance THEN "NotCheckedInYet"
    ELSE IF attendance[k].check_in_time = NoTime THEN "NotCheckedInYet"
    ELSE IF attendance[k].check_out_time # NoTime THEN "AlreadyCheckedOut"
    ELSE "Ok"

\* check_out_view (POST, behind login_required).
CheckOut(s, t2) ==
    /\ t2 \in SecondReads
    /\ IF ~is_authenticated(s)
       THEN /\ resp' = [op |-> "check_out", sess |-> s, outcome |-> "RedirectLogin"]
            /\ UNCHANGED attendance
       ELSE LET employee     == session[s].auth
                today        == DateOf(now)
                current_time == TimeOf(t2)
                k            == <<employee, today>>
                guard        == CheckOutGuard(k)
            IN  IF guard # "Ok"
                THEN /\ resp' = [op |-> "check_out", sess |-> s, key |-> <<employee, today>>,
                                 outcome |-> guard]
                     /\ UNCHANGED attendance
                ELSE LET out   == [attendance[k] EXCEPT !.check_out_time = current_time]
                         hours == calculate_hours_worked(out)
                     IN  /\ attendance' = Put(attendance, k,
                                    [out EXCEPT !.status = StatusForHours(hours)])
                         /\ resp' = [op |-> "check_out", sess |-> s,
                                     key |-> <<employee, today>>,
                                     outcome |-> "CheckedOut", hours |-> hours]
    /\ now' = t2
    /\ UNCHANGED <<payroll_tables, race_state, otp, otp_expiry, session, confirmed, employee_ids, pc, new_id, leave>>

\* The clock of the attendance specification moves to a later instant.
TickAtt ==
    /\ \E t \in AttInstants : t > now /\ now' = t
    /\ resp' = [op |-> "tick"]
    /\ UNCHANGED <<payroll_tables, race_state, otp, otp_expiry, session, confirmed, employee_ids, pc, new_id,
                   attendance, leave>>

(***************************************************************************)
(* Leave workflow: apply_leave_view, approve_leave_view, reject_leave_view.*)
(***************************************************************************)

\* Number of LeaveRequest rows the model stores.
MaxLeave == 1

LeaveIds == 1 .. MaxLeave

\* Values of the comments field of the approve / reject forms.
Comments == {"", "ok"}

\* apply_leave_view (POST, behind login_required) with a valid
\* LeaveRequestForm: both dates are present, the form has no clean() method.
SubmitLeave(s, start, end) ==
    /\ IF ~is_authenticated(s)
       THEN /\ resp' = [op |-> "apply_leave", sess |-> s, outcome |-> "RedirectLogin"]
            /\ UNCHANGED leave
       ELSE /\ \E i \in LeaveIds :
                 /\ i \notin DOMAIN leave
                 /\ \A j \in LeaveIds : j < i => j \in DOMAIN leave
                 /\ leave' = Put(leave, i,
                                [employee       |-> session[s].auth,
                                 start_date     |-> start,
                                 end_date       |-> end,
                                 status         |-> "PENDING",
                                 approved_by    |-> None,
                                 admin_comments |-> None])
                 /\ resp' = [op |-> "apply_leave", sess |-> s, id |-> i,
                             outcome |-> "Submitted"]
    /\ UNCHANGED <<payroll_tables, race_state, now, otp, otp_expiry, session, confirmed, employee_ids, pc, new_id,
                   attendance>>

AdminGate_LoginOnly(s) ==
    IF ~is_authenticated(s) THEN "RedirectLogin" ELSE "Pass"

\* What the admin_required wrapper (under login_required) does with a
\* request of session s: "Pass" calls the view.
AdminGate(s) ==
    IF ~is_authenticated(s) THEN "RedirectLogin"
    ELSE IF ~is_admin(session[s].auth) THEN "RedirectEmployeeDashboard"
    ELSE "Pass"

\* The dates current_date takes in the while loop of approve_leave_view.
LeaveDates(req) == {d \in Dates : req.start_date <= d /\ d <= req.end_date}

LeaveRow_KeepStatus(k) ==
    IF k \notin DOMAIN attendance
    THEN [check_in_time |-> NoTime, check_out_time |-> NoTime, status |-> "LEAVE"]
    ELSE attendance[k]

LeaveRow_Fresh(k) ==
    [check_in_time |-> NoTime, check_out_time |-> NoTime, status |-> "LEAVE"]

\* Attendance.objects.update_or_create(..., defaults={'status': 'LEAVE'}):
\* the row of key k afterwards.
LeaveRow(k) ==
    IF k \notin DOMAIN attendance
    THEN [check_in_time |-> NoTime, check_out_time |-> NoTime, status |-> "LEAVE"]
    ELSE [attendance[k] EXCEPT !.status = "LEAVE"]

\* The rows the loop of approve_leave_view writes for request inflight.
LeaveKeys(req) == {<<req.employee, d>> : d \in LeaveDates(req)}

\* approve_leave_view (POST, behind login_required and admin_required).
ApproveLeave(s, id, comments) ==
    /\ LET gate == AdminGate(s)
       IN  IF gate # "Pass"
           THEN /\ resp' = [op |-> "approve_leave", sess |-> s, id |-> id, outcome |-> gate]
                /\ UNCHANGED <<leave, attendance>>
           ELSE IF id \notin DOMAIN leave
           THEN /\ resp' = [op |-> "approve_leave", sess |-> s, id |-> id,
                            outcome |-> "NotFound"]
                /\ UNCHANGED <<leave, attendance>>
           ELSE LET req == leave[id]
                IN  /\ leave' = [leave EXCEPT ![id] =
                                    [req EXCEPT !.status = "APPROVED",
                                                !.approved_by = session[s].auth,
                                                !.admin_comments = comments]]
                    /\ attendance' =
                            [k \in DOMAIN attendance \cup LeaveKeys(req) |->
                                IF k \in LeaveKeys(req)
                                THEN LeaveRow(k)
                                ELSE attendance[k]]
                    /\ resp' = [op |-> "approve_leave", sess |-> s, id |-> id,
                                outcome |-> "Approved", writes |-> LeaveKeys(req)]
    /\ UNCHANGED <<payroll_tables, race_state, now, otp, otp_expiry, session, confirmed, employee_ids, pc, new_id>>

\* reject_leave_view (POST, behind login_required and admin_required).
RejectLeave(s, id, comments) ==
    /\ LET gate == AdminGate(s)
       IN  IF gate # "Pass"
           THEN /\ resp' = [op |-> "reject_leave", sess |-> s, id |-> id, outcome |-> gate]
                /\ UNCHANGED leave
           ELSE IF id \notin DOMAIN leave
           THEN /\ resp' = [op |-> "reject_leave", sess |-> s, id |-> id,
                            outcome |-> "NotFound"]
                /\ UNCHANGED leave
           ELSE /\ leave' = [leave EXCEPT ![id] =
                                [leave[id] EXCEPT !.status = "REJECTED",
                                                  !.approved_by = session[s].auth,
                                                  !.admin_comments = comments]]
                /\ resp' = [op |-> "reject_leave", sess |-> s, id |-> id,
                            outcome |-> "Rejected"]
    /\ UNCHANGED <<payroll_tables, race_state, now, otp, otp_expiry, session, confirmed, employee_ids, pc, new_id,
                   attendance>>


(***************************************************************************)
(* Employee provisioning: add_user_view.  An employee_id is a sequence of  *)
(* one-character strings over digits and upper-case letters.               *)
(***************************************************************************)
Digits == <<"0", "1", "2", "3", "4", "5", "6", "7", "8", "9">>

Letters == <<"E", "H", "M", "P", "R">>

IsDigit(c) == \E i \in 1 .. Len(Digits) : Digits[i] = c

DigitVal(c) == (CHOOSE i \in 1 .. Len(Digits) : Digits[i] = c) - 1

\* Code point order of the alphabet: digits sort before upper-case letters.
Ord(c) ==
    IF IsDigit(c) THEN DigitVal(c)
    ELSE 10 + (CHOOSE i \in 1 .. Len(Letters) : Letters[i] = c)

\* a < b in the order of ORDER BY employee_id.
LexLess(a, b) ==
    \/ /\ Len(a) < Len(b)
       /\ SubSeq(b, 1, Len(a)) = a
    \/ \E i \in 1 .. Len(a) :
          /\ i <= Len(b)
          /\ SubSeq(a, 1, i - 1) = SubSeq(b, 1, i - 1)
          /\ Ord(a[i]) < Ord(b[i])

\* employee_id__startswith=prefix
StartsWith(id, prefix) ==
    /\ Len(id) >= Len(prefix)
    /\ SubSeq(id, 1, Len(prefix)) = prefix

\* prefix = 'HR' if role == 'ADMIN' else 'E'
Prefix(role) == IF role = "ADMIN" THEN <<"H", "R">> ELSE <<"E">>

\* CustomUser.objects.filter(employee_id__startswith=prefix)
\*     .order_by('-employee_id').first(): the employee_id, or NoId.
LastUser(ids, prefix) ==
    LET matching == {id \in ids : StartsWith(id, prefix)}
    IN  IF matching = {} THEN NoId
        ELSE CHOOSE m \in matching : \A x \in matching : x = m \/ LexLess(x, m)

RECURSIVE DigitsValue(_)
\* The value of a sequence of decimal digits.
DigitsValue(ds) ==
    IF ds = <<>> THEN 0
    ELSE 10 * DigitsValue(SubSeq(ds, 1, Len(ds) - 1)) + DigitVal(ds[Len(ds)])

\* int(text): over this alphabet it succeeds on the non-empty digit strings
\* and raises ValueError on everything else.
ParseInt(text) ==
    IF text # <<>> /\ \A i \in 1 .. Len(text) : IsDigit(text[i])
    THEN [ok |-> TRUE, value |-> DigitsValue(text)]
    ELSE [ok |-> FALSE, value |-> 0]

RECURSIVE Str(_)
\* str(n) for n >= 0.
Str(n) ==
    IF n < 10 THEN <<Digits[n + 1]>>
    ELSE Str(n \div 10) \o <<Digits[(n % 10) + 1]>>

RECURSIVE Zfill(_, _)
\* text.zfill(width) of an unsigned text.
Zfill(text, width) ==
    IF Len(text) >= width THEN text ELSE Zfill(<<"0">> \o text, width)

NewNumber_Reuse(ids, prefix) ==
    LET last_user == LastUser(ids, prefix)
    IN  IF last_user = NoId THEN 1
        ELSE LET parsed == ParseInt(SubSeq(last_user, Len(prefix) + 1, Len(last_user)))
             IN  IF parsed.ok THEN parsed.value ELSE 1

\* new_number of add_user_view.
NewNumber(ids, prefix) ==
    LET last_user == LastUser(ids, prefix)
    IN  IF last_user = NoId THEN 1
        ELSE LET parsed == ParseInt(SubSeq(last_user, Len(prefix) + 1, Len(last_user)))
             IN  IF parsed.ok THEN parsed.value + 1 ELSE 1

\* user.employee_id = f"{prefix}{str(new_number).zfill(5)}"
allocate_employee_id(role, ids) ==
    Prefix(role) \o Zfill(Str(NewNumber(ids, Prefix(role))), 5)


Roles == {"ADMIN", "EMPLOYEE"}

\* Number of add_user_view requests the model serves.
MaxProcs == 2

Procs == 1 .. MaxProcs

\* user.save(): employee_id is unique=True, so a duplicate raises
\* IntegrityError and stores nothing.
SaveOutcome(id, ids) == IF id \in ids THEN "IntegrityError" ELSE "Created"

\* add_user_view (POST with a valid form, behind login_required and
\* admin_required), served without interleaving.
AddUser(s, p, role) ==
    /\ pc[p] = "start"
    /\ LET gate == AdminGate(s)
       IN  IF gate # "Pass"
           THEN /\ resp' = [op |-> "add_user", sess |-> s, outcome |-> gate]
                /\ UNCHANGED <<employee_ids, pc, new_id>>
           ELSE LET id      == allocate_employee_id(role, employee_ids)
                    outcome == SaveOutcome(id, employee_ids)
                IN  /\ new_id' = [new_id EXCEPT ![p] = id]
                    /\ employee_ids' = IF outcome = "Created"
                                       THEN employee_ids \cup {id}
                                       ELSE employee_ids
                    /\ pc' = [pc EXCEPT ![p] = outcome]
                    /\ resp' = [op |-> "add_user", sess |-> s, proc |-> p,
                                role |-> role, before |-> employee_ids,
                                id |-> id, outcome |-> outcome]
    /\ UNCHANGED <<payroll_tables, race_state, now, otp, otp_expiry, session, confirmed, attendance, leave>>

\* First half of add_user_view when requests interleave: the query for the
\* last identifier and the assignment of user.employee_id.
AddUserRead(s, p, role) ==
    /\ pc[p] = "start"
    /\ LET gate == AdminGate(s)
       IN  IF gate # "Pass"
           THEN /\ resp' = [op |-> "add_user", sess |-> s, outcome |-> gate]
                /\ UNCHANGED <<pc, new_id>>
           ELSE /\ new_id' = [new_id EXCEPT ![p] =
                                allocate_employee_id(role, employee_ids)]
                /\ pc' = [pc EXCEPT ![p] = "read"]
                /\ resp' = [op |-> "add_user_read", sess |-> s, proc |-> p,
                            role |-> role]
    /\ UNCHANGED <<payroll_tables, race_state, now, otp, otp_expiry, session, confirmed, employee_ids,
                   attendance, leave>>

\* Second half: user.save().
AddUserSave(p) ==
    /\ pc[p] = "read"
    /\ LET outcome == SaveOutcome(new_id[p], employee_ids)
       IN  /\ employee_ids' = IF outcome = "Created"
                              THEN employee_ids \cup {new_id[p]}
                              ELSE employee_ids
           /\ pc' = [pc EXCEPT ![p] = outcome]
           /\ resp' = [op |-> "add_user_save", proc |-> p, id |-> new_id[p],
                       outcome |-> outcome]
    /\ UNCHANGED <<payroll_tables, race_state, now, otp, otp_expiry, session, confirmed, new_id, attendance, leave>>

(***************************************************************************)
(* Payroll: admin_update_salary_view, admin_generate_payroll_view,         *)
(* Payroll.save.  Amounts are whole numbers of the currency's hundredths.   *)
(***************************************************************************)

\* The rows of CustomUser with role EMPLOYEE; emp2 never logs in.
Employees == {"emp", "emp2"}

\* The orders in which the queryset filter(role='EMPLOYEE'), which has no
\* order_by, can return the employees.
EmployeeOrders ==
    {o \in [1 .. Cardinality(Employees) -> Employees] :
        \A i, j \in DOMAIN o : i # j => o[i] # o[j]}

\* Values of the month and year fields of the generation form.
Months == {3, 4}

Years == {2024}

\* A dict with no keys: the default of EmployeeProfile.salary_structure.
EmptyDict == [k \in {} |-> 0]

\* An optional form field left empty: its cleaned_data value is None.
Blank == -1

\* Submissions of SalaryStructureForm that are valid (base_salary is
\* required; allowances and deductions are not).
SalaryForms ==
    { [base_salary |-> 10000, allowances |-> 3000, deductions |-> 1000],
      [base_salary |-> 20000, allowances |-> 0, deductions |-> 0],
      [base_salary |-> 10000, allowances |-> Blank, deductions |-> 0] }

\* Values of the department field of the employee edit form.
Departments == {"Not Assigned", "Sales"}

\* dict.get(key, 0)
Get(d, key) == IF key \in DOMAIN d THEN d[key] ELSE 0

\* admin_update_salary_view (POST with a valid form, behind login_required
\* and admin_required).  float(None) raises TypeError for an empty optional
\* field, before anything is stored.
UpdateSalary(s, e, form) ==
    /\ LET gate == AdminGate(s)
       IN  IF gate # "Pass"
           THEN /\ resp' = [op |-> "update_salary", sess |-> s, outcome |-> gate]
                /\ UNCHANGED profile
           ELSE IF e \notin DOMAIN profile
           THEN /\ resp' = [op |-> "update_salary", sess |-> s, outcome |-> "NotFound"]
                /\ UNCHANGED profile
           ELSE IF form.allowances = Blank \/ form.deductions = Blank
           THEN /\ resp' = [op |-> "update_salary", sess |-> s, outcome |-> "TypeError"]
                /\ UNCHANGED profile
           ELSE /\ profile' = [profile EXCEPT ![e].salary_structure =
                                  [base_salary |-> form.base_salary,
                                   allowances  |-> form.allowances,
                                   deductions  |-> form.deductions]]
                /\ resp' = [op |-> "update_salary", sess |-> s, outcome |-> "Updated"]
    /\ UNCHANGED <<payroll, race_state, now, otp, otp_expiry, session, confirmed,
                   employee_ids, pc, new_id, attendance, leave>>

\* edit_employee_view (POST, behind login_required and admin_required); of
\* the fields it assigns the model keeps the profile's department.
EditEmployee(s, e, department) ==
    /\ LET gate == AdminGate(s)
       IN  IF gate # "Pass"
           THEN /\ resp' = [op |-> "edit_employee", sess |-> s, outcome |-> gate]
                /\ UNCHANGED profile
           ELSE IF e \notin DOMAIN profile
           THEN /\ resp' = [op |-> "edit_employee", sess |-> s, outcome |-> "NotFound"]
                /\ UNCHANGED profile
           ELSE /\ profile' = [profile EXCEPT ![e].department = department]
                /\ resp' = [op |-> "edit_employee", sess |-> s, outcome |-> "Updated"]
    /\ UNCHANGED <<payroll, race_state, now, otp, otp_expiry, session, confirmed,
                   employee_ids, pc, new_id, attendance, leave>>

\* What the employee_required wrapper (under login_required) does with a
\* request of session s.
EmployeeGate(s) ==
    IF ~is_authenticated(s) THEN "RedirectLogin"
    ELSE IF ~is_employee(session[s].auth) THEN "RedirectAdminDashboard"
    ELSE "Pass"

\* employee_dashboard_view (behind login_required and employee_required):
\* it only reads.
EmployeeDashboard(s) ==
    /\ resp' = [op |-> "employee_dashboard", sess |-> s,
                outcome |-> IF EmployeeGate(s) = "Pass" THEN "Rendered"
                            ELSE EmployeeGate(s)]
    /\ UNCHANGED <<payroll_tables, race_state, now, otp, otp_expiry, session,
                   confirmed, employee_ids, pc, new_id, attendance, leave>>

\* Payroll.calculate_net_salary: the row with net_salary derived.
calculate_net_salary(row) ==
    [row EXCEPT !.net_salary = row.base_salary + row.allowances - row.deductions]

\* The rows of the Payroll table with the key (employee, month, year).
PayrollRows(rows, employee, month, year) ==
    {r \in rows : r.employee = employee /\ r.month = month /\ r.year = year}

\* Payroll.objects.update_or_create(employee, month, year, defaults) on the
\* table rows, each path ending in Payroll.save().  On the update path save()
\* is called with update_fields naming the defaults (Django 4.2 and later),
\* which leaves the stored net_salary as it was, or without update_fields
\* (before 4.2), which writes every field: net_in_update says which.
update_or_create(rows, employee, month, year, defaults, net_in_update) ==
    LET found == PayrollRows(rows, employee, month, year)
    IN  IF found = {}
        THEN rows \cup {calculate_net_salary(
                            [employee    |-> employee,
                             month       |-> month,
                             year        |-> year,
                             base_salary |-> defaults.base_salary,
                             allowances  |-> defaults.allowances,
                             deductions  |-> defaults.deductions,
                             net_salary  |-> Blank])}
        ELSE LET old   == CHOOSE r \in found : TRUE
                 obj   == [old EXCEPT !.base_salary = defaults.base_salary,
                                      !.allowances  = defaults.allowances,
                                      !.deductions  = defaults.deductions]
                 saved == calculate_net_salary(obj)
             IN  (rows \ {old}) \cup
                    {IF net_in_update THEN saved
                     ELSE [saved EXCEPT !.net_salary = old.net_salary]}

RECURSIVE GenerateLoop(_, _, _, _, _, _)
\* The for loop of admin_generate_payroll_view over the employees still to
\* visit: the table, generated_count and how the loop ended.  An employee
\* without an EmployeeProfile row makes employee.profile raise
\* RelatedObjectDoesNotExist; the rows written before stay written.
GenerateLoop(todo, month, year, rows, generated_count, net_in_update) ==
    IF todo = <<>>
    THEN [rows |-> rows, count |-> generated_count, outcome |-> "Generated"]
    ELSE LET employee == Head(todo)
         IN  IF employee \notin DOMAIN profile
             THEN [rows |-> rows, count |-> generated_count,
                   outcome |-> "RelatedObjectDoesNotExist"]
             ELSE LET salary_structure == profile[employee].salary_structure
                  IN  IF salary_structure = EmptyDict
                            \/ "base_salary" \notin DOMAIN salary_structure
                      THEN GenerateLoop(Tail(todo), month, year, rows,
                                        generated_count, net_in_update)
                      ELSE GenerateLoop(Tail(todo), month, year,
                              update_or_create(rows, employee, month, year,
                                  [base_salary |-> Get(salary_structure, "base_salary"),
                                   allowances  |-> Get(salary_structure, "allowances"),
                                   deductions  |-> Get(salary_structure, "deductions")],
                                  net_in_update),
                              generated_count + 1, net_in_update)

\* admin_generate_payroll_view (POST with numeric month and year, behind
\* login_required and admin_required).
GeneratePayroll(s, month, year, order, net_in_update) ==
    /\ LET gate == AdminGate(s)
       IN  IF gate # "Pass"
           THEN /\ resp' = [op |-> "generate_payroll", sess |-> s, outcome |-> gate]
                /\ UNCHANGED payroll
           ELSE LET run == GenerateLoop(order, month, year, payroll, 0, net_in_update)
                IN  /\ payroll' = run.rows
                    /\ resp' = [op |-> "generate_payroll", sess |-> s,
                                month |-> month, year |-> year,
                                count |-> run.count, outcome |-> run.outcome]
    /\ UNCHANGED <<profile, race_state, now, otp, otp_expiry, session, confirmed,
                   employee_ids, pc, new_id, attendance, leave>>


(***************************************************************************)
(* Attendance requests served concurrently: check_in_view and the loop of  *)
(* approve_leave_view, statement by statement.  The table is a set of rows *)
(* with primary keys; get_or_create is QuerySet.get_or_create: get, then   *)
(* create, and on IntegrityError get again.                                *)
(***************************************************************************)

\* The local state of a request that has not started.
NoRow == [pk |-> 0]

NoRequest ==
    [kind |-> "none", employee |-> None, date |-> 0, current_time |-> NoTime,
     lost |-> FALSE, created |-> FALSE, row |-> NoRow, outcome |-> None]

\* The rows of the Attendance table with the key (employee, date).
AttendanceRows(employee, date) ==
    {r \in att_rows : r.employee = employee /\ r.date = date}

InsertAllowed_NoConstraint(employee, date) == TRUE

\* unique_together = ['employee', 'date']: an INSERT succeeds only when no
\* row has the key.
InsertAllowed(employee, date) == AttendanceRows(employee, date) = {}

\* check_in_view up to the call of get_or_create: the request has read
\* request.user, today and current_time.
CheckInBegin(s, p) ==
    /\ pc[p] = "start"
    /\ IF ~is_authenticated(s)
       THEN /\ resp' = [op |-> "check_in", sess |-> s, outcome |-> "RedirectLogin"]
            /\ UNCHANGED <<pc, inflight>>
       ELSE /\ inflight' = [inflight EXCEPT ![p] =
                        [NoRequest EXCEPT !.kind = "check_in",
                                          !.employee = session[s].auth,
                                          !.date = DateOf(now),
                                          !.current_time = TimeOf(now)]]
            /\ pc' = [pc EXCEPT ![p] = "get"]
            /\ resp' = [op |-> "check_in_begin", proc |-> p]
    /\ UNCHANGED <<payroll_tables, att_rows, now, otp, otp_expiry, session, confirmed,
                   employee_ids, new_id, attendance, leave>>

\* approve_leave_view up to the first update_or_create of its loop: the
\* request has saved the decision.  The loop of this request visits the
\* request's start date; a created row has no check-in time (current_time of
\* this request stays NoTime).
ApproveBegin(s, p, id, comments) ==
    /\ pc[p] = "start"
    /\ LET gate == AdminGate(s)
       IN  IF gate # "Pass"
           THEN /\ resp' = [op |-> "approve_leave", sess |-> s, id |-> id, outcome |-> gate]
                /\ UNCHANGED <<pc, inflight, leave>>
           ELSE IF id \notin DOMAIN leave
           THEN /\ resp' = [op |-> "approve_leave", sess |-> s, id |-> id,
                            outcome |-> "NotFound"]
                /\ UNCHANGED <<pc, inflight, leave>>
           ELSE /\ leave' = [leave EXCEPT ![id] =
                                [leave[id] EXCEPT !.status = "APPROVED",
                                                  !.approved_by = session[s].auth,
                                                  !.admin_comments = comments]]
                /\ inflight' = [inflight EXCEPT ![p] =
                            [NoRequest EXCEPT !.kind = "approve",
                                              !.employee = leave[id].employee,
                                              !.date = leave[id].start_date]]
                /\ pc' = [pc EXCEPT ![p] = "get"]
                /\ resp' = [op |-> "approve_begin", proc |-> p]
    /\ UNCHANGED <<payroll_tables, att_rows, now, otp, otp_expiry, session, confirmed,
                   employee_ids, new_id, attendance>>

\* self.get(**kwargs) of get_or_create, first and after a failed create.
\* A failed second get re-raises the IntegrityError of the create.
GetRow(p) ==
    /\ pc[p] \in {"get", "get_again"}
    /\ LET found == AttendanceRows(inflight[p].employee, inflight[p].date)
       IN  IF Cardinality(found) > 1
           THEN /\ pc' = [pc EXCEPT ![p] = "MultipleObjectsReturned"]
                /\ UNCHANGED inflight
           ELSE IF found = {}
           THEN /\ pc' = [pc EXCEPT ![p] = IF pc[p] = "get" THEN "create"
                                           ELSE "IntegrityError"]
                /\ UNCHANGED inflight
           ELSE /\ pc' = [pc EXCEPT ![p] = "have"]
                /\ inflight' = [inflight EXCEPT ![p].created = FALSE,
                                       ![p].row = CHOOSE r \in found : TRUE]
    /\ resp' = [op |-> "get", proc |-> p]
    /\ UNCHANGED <<payroll_tables, att_rows, now, otp, otp_expiry, session, confirmed,
                   employee_ids, new_id, attendance, leave>>

\* self.create(**params) of get_or_create: the INSERT, or the IntegrityError
\* that get_or_create catches.
CreateRow(p) ==
    /\ pc[p] = "create"
    /\ IF InsertAllowed(inflight[p].employee, inflight[p].date)
       THEN LET row == [pk             |-> Cardinality(att_rows) + 1,
                        employee       |-> inflight[p].employee,
                        date           |-> inflight[p].date,
                        check_in_time  |-> inflight[p].current_time,
                        check_out_time |-> NoTime,
                        status         |-> IF inflight[p].kind = "check_in"
                                           THEN "PRESENT" ELSE "LEAVE"]
            IN  /\ att_rows' = att_rows \cup {row}
                /\ inflight' = [inflight EXCEPT ![p].created = TRUE, ![p].row = row]
                /\ pc' = [pc EXCEPT ![p] = "have"]
       ELSE /\ inflight' = [inflight EXCEPT ![p].lost = TRUE]
            /\ pc' = [pc EXCEPT ![p] = "get_again"]
            /\ UNCHANGED att_rows
    /\ resp' = [op |-> "create", proc |-> p]
    /\ UNCHANGED <<payroll_tables, now, otp, otp_expiry, session, confirmed,
                   employee_ids, new_id, attendance, leave>>

\* The stored rows after obj.save() of the in-memory row obj: an UPDATE by
\* primary key of every field, or of the status alone.
SaveRow(obj, all_fields) ==
    {IF r.pk = obj.pk
     THEN (IF all_fields THEN obj ELSE [r EXCEPT !.status = obj.status])
     ELSE r : r \in att_rows}

\* check_in_view after get_or_create.
CheckInEnd(p) ==
    /\ pc[p] = "have"
    /\ inflight[p].kind = "check_in"
    /\ IF ~inflight[p].created /\ inflight[p].row.check_in_time # NoTime
       THEN /\ inflight' = [inflight EXCEPT ![p].outcome = "AlreadyCheckedIn"]
            /\ UNCHANGED att_rows
       ELSE /\ att_rows' = SaveRow([inflight[p].row EXCEPT
                                        !.check_in_time = inflight[p].current_time,
                                        !.status = "PRESENT"], TRUE)
            /\ inflight' = [inflight EXCEPT ![p].outcome = "CheckedIn"]
    /\ pc' = [pc EXCEPT ![p] = "done"]
    /\ resp' = [op |-> "check_in_end", proc |-> p]
    /\ UNCHANGED <<payroll_tables, now, otp, otp_expiry, session, confirmed,
                   employee_ids, new_id, attendance, leave>>

\* update_or_create after its get_or_create: a created row is returned as it
\* is; an existing one gets the defaults and is saved, with update_fields
\* naming the defaults (Django 4.2 and later) or with every field (before).
ApproveEnd(p, all_fields) ==
    /\ pc[p] = "have"
    /\ inflight[p].kind = "approve"
    /\ IF inflight[p].created
       THEN UNCHANGED att_rows
       ELSE att_rows' = SaveRow([inflight[p].row EXCEPT !.status = "LEAVE"], all_fields)
    /\ inflight' = [inflight EXCEPT ![p].outcome = "Approved"]
    /\ pc' = [pc EXCEPT ![p] = "done"]
    /\ resp' = [op |-> "approve_end", proc |-> p]
    /\ UNCHANGED <<payroll_tables, now, otp, otp_expiry, session, confirmed,
                   employee_ids, new_id, attendance, leave>>


(***************************************************************************)
(* Initial states and specifications.                                      *)
(***************************************************************************)
\* The profile add_user_view creates: salary_structure is the field's
\* default, an empty dict.
DefaultProfile == [department |-> "Not Assigned", salary_structure |-> EmptyDict]

\* Every employee has the profile provisioning gave them; no payroll yet.
InitPayrollIdle ==
    /\ profile = [e \in Employees |-> DefaultProfile]
    /\ payroll = {}

\* No concurrent attendance request is in flight.
InitRaceIdle ==
    /\ att_rows = {}
    /\ inflight = [p \in Procs |-> NoRequest]

E00001 == <<"E", "0", "0", "0", "0", "1">>

HR00001 == <<"H", "R", "0", "0", "0", "0", "1">>

\* Identifiers the users table can hold before a provisioning request:
\* allocated ones, and ones entered by hand through the admin site.
IdCatalogue ==
    { E00001,
      <<"E", "0", "0", "0", "0", "9">>,
      <<"E", "0", "0", "0", "1", "0">>,
      <<"E", "9", "9", "9", "9", "9">>,
      <<"E", "1", "0", "0", "0", "0", "0">>,
      <<"E", "M", "P", "0", "1">>,
      <<"E">>,
      <<"E", "5">>,
      HR00001,
      <<"H", "R", "0", "0", "0", "9", "9">> }

\* Both sessions logged in: s1 as the employee, s2 as the admin.
LoggedIn == [s \in Sessions |->
                [otp_user_id |-> None, auth |-> IF s = "s1" THEN "emp" ELSE "hr"]]

InitAuth ==
    /\ InitPayrollIdle
    /\ InitRaceIdle
    /\ now = 0
    /\ otp = [u \in UserIds |-> None]
    /\ otp_expiry = [u \in UserIds |-> NoTime]
    /\ session = [s \in Sessions |-> EmptySession]
    /\ confirmed = [s \in Sessions |-> None]
    /\ resp = [op |-> "init"]
    /\ employee_ids = {E00001, HR00001}
    /\ pc = [p \in Procs |-> "start"]
    /\ new_id = [p \in Procs |-> NoId]
    /\ attendance = <<>>
    /\ leave = <<>>

\* Only the employee is logged in, in session s1.
EmployeeOnly == [s \in Sessions |->
                    [otp_user_id |-> None, auth |-> IF s = "s1" THEN "emp" ELSE None]]

\* A leave request of the employee for day 0, approved by the admin, and the
\* attendance row its approval created.
ApprovedLeave ==
    [employee |-> "emp", start_date |-> 0, end_date |-> 0, status |-> "APPROVED",
     approved_by |-> "hr", admin_comments |-> "ok"]

LeaveDayRow == [check_in_time |-> NoTime, check_out_time |-> NoTime, status |-> "LEAVE"]

\* The attendance specification starts with the employee logged in and
\* either empty tables or an approved leave on day 0.
InitAtt ==
    /\ InitPayrollIdle
    /\ InitRaceIdle
    /\ now = 0
    /\ otp = [u \in UserIds |-> None]
    /\ otp_expiry = [u \in UserIds |-> NoTime]
    /\ session = EmployeeOnly
    /\ confirmed = [s \in Sessions |-> EmployeeOnly[s].auth]
    /\ resp = [op |-> "init"]
    /\ employee_ids = {E00001, HR00001}
    /\ pc = [p \in Procs |-> "start"]
    /\ new_id = [p \in Procs |-> NoId]
    /\ \/ attendance = <<>> /\ leave = <<>>
       \/ /\ attendance = Put(<<>>, <<"emp", 0>>, LeaveDayRow)
          /\ leave = Put(<<>>, 1, ApprovedLeave)

\* The leave specification starts with both users logged in.
InitLeave ==
    /\ InitPayrollIdle
    /\ InitRaceIdle
    /\ now = 0
    /\ otp = [u \in UserIds |-> None]
    /\ otp_expiry = [u \in UserIds |-> NoTime]
    /\ session = LoggedIn
    /\ confirmed = [s \in Sessions |-> LoggedIn[s].auth]
    /\ resp = [op |-> "init"]
    /\ employee_ids = {E00001, HR00001}
    /\ pc = [p \in Procs |-> "start"]
    /\ new_id = [p \in Procs |-> NoId]
    /\ attendance = <<>>
    /\ leave = <<>>

InitProv ==
    /\ InitPayrollIdle
    /\ InitRaceIdle
    /\ now = 0
    /\ otp = [u \in UserIds |-> None]
    /\ otp_expiry = [u \in UserIds |-> NoTime]
    /\ session = LoggedIn
    /\ confirmed = [s \in Sessions |-> LoggedIn[s].auth]
    /\ resp = [op |-> "init"]
    /\ employee_ids \in SUBSET IdCatalogue
    /\ pc = [p \in Procs |-> "start"]
    /\ new_id = [p \in Procs |-> NoId]
    /\ attendance = <<>>
    /\ leave = <<>>

\* The identifiers provisioning n employees and m admins into an empty table
\* leaves behind.
Allocated(n, m) ==
    {<<"E">> \o Zfill(Str(i), 5) : i \in 1 .. n}
        \cup {<<"H", "R">> \o Zfill(Str(i), 5) : i \in 1 .. m}

\* Largest number of earlier provisionings per role in the initial table of
\* the interleaving specification.
MaxEarlier == 2

InitRace ==
    /\ InitPayrollIdle
    /\ InitRaceIdle
    /\ now = 0
    /\ otp = [u \in UserIds |-> None]
    /\ otp_expiry = [u \in UserIds |-> NoTime]
    /\ session = LoggedIn
    /\ confirmed = [s \in Sessions |-> LoggedIn[s].auth]
    /\ resp = [op |-> "init"]
    /\ \E n \in 0 .. MaxEarlier, m \in 1 .. MaxEarlier : employee_ids = Allocated(n, m)
    /\ pc = [p \in Procs |-> "start"]
    /\ new_id = [p \in Procs |-> NoId]
    /\ attendance = <<>>
    /\ leave = <<>>

\* A leave request of the employee for day 0, not yet decided.
PendingLeave ==
    [employee |-> "emp", start_date |-> 0, end_date |-> 0, status |-> "PENDING",
     approved_by |-> None, admin_comments |-> None]

\* Profiles the payroll specification starts from: the one provisioning
\* creates, and one whose salary_structure was edited on the admin site
\* and has no base_salary.
InitialProfiles ==
    {DefaultProfile, [DefaultProfile EXCEPT !.salary_structure = [allowances |-> 3000]]}

\* The payroll specification starts with both users logged in, no payroll
\* rows, and employees of whom some have no EmployeeProfile row (users added
\* on the admin site).
InitPay ==
    /\ InitRaceIdle
    /\ \E D \in SUBSET Employees : profile \in [D -> InitialProfiles]
    /\ payroll = {}
    /\ now = 0
    /\ otp = [u \in UserIds |-> None]
    /\ otp_expiry = [u \in UserIds |-> NoTime]
    /\ session = LoggedIn
    /\ confirmed = [s \in Sessions |-> LoggedIn[s].auth]
    /\ resp = [op |-> "init"]
    /\ employee_ids = {E00001, HR00001}
    /\ pc = [p \in Procs |-> "start"]
    /\ new_id = [p \in Procs |-> NoId]
    /\ attendance = <<>>
    /\ leave = <<>>

\* The access specification starts with the employee logged in, the admin
\* logged in or not, and one undecided leave request.
InitGate ==
    /\ InitPayrollIdle
    /\ InitRaceIdle
    /\ now = 0
    /\ otp = [u \in UserIds |-> None]
    /\ otp_expiry = [u \in UserIds |-> NoTime]
    /\ session \in {EmployeeOnly, LoggedIn}
    /\ confirmed = [s \in Sessions |-> session[s].auth]
    /\ resp = [op |-> "init"]
    /\ employee_ids = {E00001, HR00001}
    /\ pc = [p \in Procs |-> "start"]
    /\ new_id = [p \in Procs |-> NoId]
    /\ attendance = <<>>
    /\ leave = Put(<<>>, 1, PendingLeave)

\* The concurrent attendance specification starts with both users logged
\* in, an empty Attendance table and one undecided leave request.
InitAttRace ==
    /\ InitPayrollIdle
    /\ InitRaceIdle
    /\ now = 0
    /\ otp = [u \in UserIds |-> None]
    /\ otp_expiry = [u \in UserIds |-> NoTime]
    /\ session = LoggedIn
    /\ confirmed = [s \in Sessions |-> LoggedIn[s].auth]
    /\ resp = [op |-> "init"]
    /\ employee_ids = {E00001, HR00001}
    /\ pc = [p \in Procs |-> "start"]
    /\ new_id = [p \in Procs |-> NoId]
    /\ attendance = <<>>
    /\ leave = Put(<<>>, 1, PendingLeave)

\* The attendance-and-leave specification starts with both users logged
\* in, an empty Attendance table and one undecided leave request of the
\* employee that starts on day 0.
InitAttLeave ==
    /\ InitPayrollIdle
    /\ InitRaceIdle
    /\ now = 0
    /\ otp = [u \in UserIds |-> None]
    /\ otp_expiry = [u \in UserIds |-> NoTime]
    /\ session = LoggedIn
    /\ confirmed = [s \in Sessions |-> LoggedIn[s].auth]
    /\ resp = [op |-> "init"]
    /\ employee_ids = {E00001, HR00001}
    /\ pc = [p \in Procs |-> "start"]
    /\ new_id = [p \in Procs |-> NoId]
    /\ attendance = <<>>
    /\ \E end \in Dates : leave = Put(<<>>, 1, [PendingLeave EXCEPT !.end_date = end])

NextAuth ==
    \/ TickAuth
    \/ \E s \in Sessions, email \in Emails, password \in Passwords,
          code \in Codes, mailOk \in BOOLEAN :
            BeginLogin(s, email, password, code, mailOk)
    \/ \E s \in Sessions, method \in {"GET", "POST"}, entered \in EnteredCodes :
            ConfirmOtp(s, method, entered)
    \/ \E s \in Sessions : Logout(s)
    \/ \E s \in Sessions : CheckIn(s, now)

SpecAuth == InitAuth /\ [][NextAuth]_vars

NextAtt ==
    \/ TickAtt
    \/ \E s \in Sessions, t2 \in AttInstants : CheckIn(s, t2)
    \/ \E s \in Sessions, t2 \in AttInstants : CheckOut(s, t2)

SpecAtt == InitAtt /\ [][NextAtt]_vars

\* The leave specification keeps the clock on day 0: check-ins and
\* check-outs write the rows of day 0, approvals the rows of every day.
\* Leave is applied for in the employee's session; both sessions check in
\* and out and send approvals and rejections.
NextLeave ==
    \/ \E s \in Sessions : CheckIn(s, now)
    \/ \E s \in Sessions : CheckOut(s, now)
    \/ \E start \in Dates, end \in Dates : SubmitLeave("s1", start, end)
    \/ \E s \in Sessions, id \in LeaveIds, comments \in Comments :
            ApproveLeave(s, id, comments)
    \/ \E s \in Sessions, id \in LeaveIds, comments \in Comments :
            RejectLeave(s, id, comments)

SpecLeave == InitLeave /\ [][NextLeave]_vars

NextProv == \E s \in Sessions, p \in Procs, role \in Roles : AddUser(s, p, role)

SpecProv == InitProv /\ [][NextProv]_vars

NextRace ==
    \/ \E s \in Sessions, p \in Procs, role \in Roles : AddUserRead(s, p, role)
    \/ \E p \in Procs : AddUserSave(p)

SpecRace == InitRace /\ [][NextRace]_vars

NextPay ==
    \/ \E s \in Sessions, e \in Employees, form \in SalaryForms :
            UpdateSalary(s, e, form)
    \/ \E s \in Sessions, month \in Months, year \in Years,
          order \in EmployeeOrders, net_in_update \in BOOLEAN :
            GeneratePayroll(s, month, year, order, net_in_update)

SpecPay == InitPay /\ [][NextPay]_vars

\* The access specification sends every admin-only operation, and the
\* employee dashboard, from both sessions.
NextGate ==
    \/ \E s \in Sessions, p \in Procs, role \in Roles : AddUser(s, p, role)
    \/ \E s \in Sessions, department \in Departments :
            EditEmployee(s, "emp", department)
    \/ \E s \in Sessions, id \in LeaveIds : ApproveLeave(s, id, "ok")
    \/ \E s \in Sessions, id \in LeaveIds : RejectLeave(s, id, "ok")
    \/ \E s \in Sessions, form \in SalaryForms : UpdateSalary(s, "emp", form)
    \/ \E s \in Sessions, order \in EmployeeOrders, net_in_update \in BOOLEAN :
            GeneratePayroll(s, 3, 2024, order, net_in_update)
    \/ \E s \in Sessions : EmployeeDashboard(s)

SpecGate == InitGate /\ [][NextGate]_vars

NextAttRace ==
    \/ \E s \in Sessions, p \in Procs : CheckInBegin(s, p)
    \/ \E s \in Sessions, p \in Procs, id \in LeaveIds : ApproveBegin(s, p, id, "ok")
    \/ \E p \in Procs : GetRow(p)
    \/ \E p \in Procs : CreateRow(p)
    \/ \E p \in Procs : CheckInEnd(p)
    \/ \E p \in Procs, all_fields \in BOOLEAN : ApproveEnd(p, all_fields)

SpecAttRace == InitAttRace /\ [][NextAttRace]_vars

\* The attendance-and-leave specification: the employee checks in and out
\* while the clock moves, and the admin approves the employee's request.
NextAttLeave ==
    \/ TickAtt
    \/ \E t2 \in AttInstants : CheckIn("s1", t2)
    \/ \E t2 \in AttInstants : CheckOut("s1", t2)
    \/ \E id \in LeaveIds : ApproveLeave("s2", id, "ok")

SpecAttLeave == InitAttLeave /\ [][NextAttLeave]_vars

Spec == SpecLeave


(***************************************************************************)
(* Properties of the login flow (SpecAuth).                                *)
(***************************************************************************)

\* C1: a POST to otp_verify_view with a pending token logs the session in
\* if and only if the stored code is present, the posted code equals it and
\* now <= the stored expiry; otherwise the session stays anonymous.
C1_ConfirmIffMatchAndFresh ==
    [][ (/\ resp'.op = "confirm_otp"
         /\ session[resp'.sess].otp_user_id # None
         /\ resp'.method = "POST")
        => LET s == resp'.sess
               u == session[s].otp_user_id
           IN  /\ (session'[s].auth = u)
                     <=> (/\ otp[u] # None
                          /\ otp[u] # ""
                          /\ resp'.entered = otp[u]
                          /\ otp_expiry[u] # NoTime
                          /\ now <= otp_expiry[u])
               /\ session'[s].auth \in {u, None}
               /\ (resp'.outcome = "Success") <=> (session'[s].auth = u) ]_vars

\* C1 witness: a confirmation at the very instant of expiry has logged the
\* session in.
C1_Witness ==
    /\ resp.op = "confirm_otp"
    /\ resp.outcome = "Success"
    /\ session[resp.sess].auth # None
    /\ now = OTP_TTL

\* C2: a session is logged in for a user only after an OTP confirmation for
\* that user in the same session; login_view never logs a session in, and an
\* attendance write comes from a session that is logged in that way.
C2_AuthOnlyAfterConfirm ==
    /\ [](\A s \in Sessions :
            session[s].auth # None => confirmed[s] = session[s].auth)
    /\ [][ resp'.op = "login" => \A s \in Sessions : session'[s].auth = session[s].auth ]_vars
    /\ [][ attendance' # attendance
           => /\ resp'.op = "check_in"
              /\ session[resp'.sess].auth # None
              /\ confirmed[resp'.sess] = session[resp'.sess].auth
              /\ DOMAIN attendance' \ DOMAIN attendance
                    \subseteq {<<session[resp'.sess].auth, DateOf(now)>>} ]_vars

\* C2 witness: one session has checked in after confirming its code while the
\* other one holds a pending token and is still anonymous.
C2_Witness ==
    \E s, t \in Sessions :
        /\ session[s].auth # None
        /\ <<session[s].auth, 0>> \in DOMAIN attendance
        /\ session[t].otp_user_id # None
        /\ session[t].auth = None

\* C3: when sending the code fails, the login attempt is reported as failed
\* and the session holds no pending token.
C3_MailFailureLeavesNoPending ==
    (resp.op = "login" /\ resp.outcome = "MailError")
        => session[resp.sess].otp_user_id = None

\* C4: a failed confirmation on a code mismatch leaves the pending token, the
\* stored code and the expiry unchanged; on an absent or expired code it
\* removes the pending token; without a pending token a confirmation fails
\* NoPendingSession, and only login_view creates a pending token.
C4_FailedConfirmPendingState ==
    /\ [][ resp'.op = "confirm_otp"
           => LET s == resp'.sess
                  u == session[s].otp_user_id
              IN  IF u = None
                  THEN /\ resp'.outcome = "NoPendingSession"
                       /\ session' = session
                  ELSE resp'.method = "POST" =>
                       LET fresh == /\ otp[u] \notin {None, ""}
                                    /\ otp_expiry[u] # NoTime
                                    /\ now <= otp_expiry[u]
                       IN  /\ (fresh /\ resp'.entered # otp[u])
                                => /\ resp'.outcome = "Mismatch"
                                   /\ session'[s].otp_user_id = u
                                   /\ otp' = otp
                                   /\ otp_expiry' = otp_expiry
                           /\ ~fresh
                                => /\ resp'.outcome = "Expired"
                                   /\ session'[s].otp_user_id = None ]_vars
    /\ [][ \A s \in Sessions :
             (session[s].otp_user_id = None /\ session'[s].otp_user_id # None)
                => (resp'.op = "login" /\ resp'.sess = s) ]_vars

\* C4 witness: a mismatch has been answered and the session still holds its
\* pending token with an unexpired code.
C4_Witness ==
    /\ resp.op = "confirm_otp"
    /\ resp.outcome = "Mismatch"
    /\ session[resp.sess].otp_user_id # None
    /\ otp[session[resp.sess].otp_user_id] \in Codes
    /\ now <= otp_expiry[session[resp.sess].otp_user_id]

(***************************************************************************)
(* Properties of provisioning (SpecRace, SpecProv).                        *)
(***************************************************************************)

\* C5: interleaved add_user requests are assigned distinct identifiers and
\* all of them complete.
C5_InterleavedIdsDistinct ==
    /\ \A p, q \in Procs :
          (p # q /\ new_id[p] # NoId /\ new_id[q] # NoId) => new_id[p] # new_id[q]
    /\ \A p \in Procs : pc[p] # "IntegrityError"

RECURSIVE C6_Less(_, _)
\* Lexicographic order, by head and tail.
C6_Less(a, b) ==
    IF b = <<>> THEN FALSE
    ELSE IF a = <<>> THEN TRUE
    ELSE IF Head(a) = Head(b) THEN C6_Less(Tail(a), Tail(b))
    ELSE Ord(Head(a)) < Ord(Head(b))

RECURSIVE C6_Pow10(_)
C6_Pow10(k) == IF k = 0 THEN 1 ELSE 10 * C6_Pow10(k - 1)

\* The text is a decimal integer.
C6_IsInteger(text) ==
    Len(text) > 0 /\ \A i \in 1 .. Len(text) : text[i] \in {Digits[j] : j \in 1 .. 10}

RECURSIVE C6_Value(_)
C6_Value(text) ==
    IF text = <<>> THEN 0
    ELSE DigitVal(Head(text)) * C6_Pow10(Len(text) - 1) + C6_Value(Tail(text))

\* The decimal digits of n, zero-padded to at least five.
C6_Pad5(n) ==
    LET width == CHOOSE w \in 5 .. 9 : n < C6_Pow10(w) /\ (w = 5 \/ n >= C6_Pow10(w - 1))
    IN  [i \in 1 .. width |-> Digits[((n \div C6_Pow10(width - i)) % 10) + 1]]

\* The identifier the rule of C6 gives for a role and a set of identifiers.
C6_Expected(role, ids) ==
    LET prefix   == IF role = "ADMIN" THEN <<"H", "R">> ELSE <<"E">>
        k        == Len(prefix)
        matching == {id \in ids : Len(id) >= k /\ \A i \in 1 .. k : id[i] = prefix[i]}
    IN  IF matching = {} THEN prefix \o <<"0", "0", "0", "0", "1">>
        ELSE LET greatest == CHOOSE m \in matching :
                                \A x \in matching : ~C6_Less(m, x)
                 suffix   == [i \in 1 .. (Len(greatest) - k) |-> greatest[i + k]]
             IN  IF C6_IsInteger(suffix)
                 THEN prefix \o C6_Pad5(C6_Value(suffix) + 1)
                 ELSE prefix \o <<"0", "0", "0", "0", "1">>

\* C6: the identifier add_user_view assigns is prefix + 00001 when no
\* identifier has the prefix or the greatest one has a non-integer suffix, and
\* otherwise prefix + (n + 1) zero-padded to five digits, n being the suffix
\* of the lexicographically greatest identifier with the prefix.
C6_AllocatedIdentifier ==
    (resp.op = "add_user" /\ resp.outcome \in {"Created", "IntegrityError"})
        => resp.id = C6_Expected(resp.role, resp.before)

\* C6 witness: an employee was provisioned as E00011 after E00010, although
\* the table also holds E00009 and the bare prefix E.
C6_Witness ==
    /\ resp.op = "add_user"
    /\ resp.outcome = "Created"
    /\ resp.role = "EMPLOYEE"
    /\ resp.id = <<"E", "0", "0", "0", "1", "1">>
    /\ <<"E", "0", "0", "0", "0", "9">> \in resp.before
    /\ <<"E">> \in resp.before


(***************************************************************************)
(* Properties of attendance (SpecAtt).                                     *)
(***************************************************************************)

\* C7: check_out without a record for (employee, today), or with a record
\* that has no check-in time, answers NotCheckedInYet; check_out on a record
\* with a check-out time answers AlreadyCheckedOut; check_in on a record with
\* a check-in time answers AlreadyCheckedIn; none of them creates or changes
\* an attendance row.
C7_GuardErrorsChangeNothing ==
    [][ (resp'.op \in {"check_in", "check_out"} /\ session[resp'.sess].auth # None)
        => LET k      == <<session[resp'.sess].auth, DateOf(now)>>
               exists == k \in DOMAIN attendance
           IN  /\ (/\ resp'.op = "check_out"
                   /\ (~exists \/ attendance[k].check_in_time = NoTime))
                     => (resp'.outcome = "NotCheckedInYet" /\ attendance' = attendance)
               /\ (/\ resp'.op = "check_out"
                   /\ exists
                   /\ attendance[k].check_out_time # NoTime)
                     => (resp'.outcome = "AlreadyCheckedOut" /\ attendance' = attendance)
               /\ (/\ resp'.op = "check_in"
                   /\ exists
                   /\ attendance[k].check_in_time # NoTime)
                     => (resp'.outcome = "AlreadyCheckedIn" /\ attendance' = attendance)
               /\ resp'.outcome \in {"NotCheckedInYet", "AlreadyCheckedOut", "AlreadyCheckedIn"}
                     => attendance' = attendance ]_vars

\* C7 witness: a second check-in, later on the day of the first one, was
\* answered AlreadyCheckedIn and the first check-in time is still recorded.
C7_Witness ==
    /\ resp.op = "check_in"
    /\ resp.outcome = "AlreadyCheckedIn"
    /\ resp.key \in DOMAIN attendance
    /\ attendance[resp.key].check_in_time # NoTime
    /\ attendance[resp.key].check_in_time < TimeOf(now)

\* C8: after a successful check_out the status is Present exactly when the
\* elapsed time is at least 8 hours, HalfDay exactly when it is at least 4 and
\* less than 8 hours, Absent exactly when it is less than 4 hours.
C8_StatusFromElapsed ==
    (resp.op = "check_out" /\ resp.outcome = "CheckedOut")
        => LET row     == attendance[resp.key]
               elapsed == row.check_out_time - row.check_in_time
           IN  /\ (row.status = "PRESENT") <=> (elapsed >= 8 * 3600)
               /\ (row.status = "HALF_DAY") <=> (4 * 3600 <= elapsed /\ elapsed < 8 * 3600)
               /\ (row.status = "ABSENT") <=> (elapsed < 4 * 3600)

(***************************************************************************)
(* Properties of the leave workflow (SpecLeave).                           *)
(***************************************************************************)

\* C9: an approval leaves a row with status Leave for every date of the
\* request's range, writes exactly the rows of that range (end - start + 1 of
\* them), and creates or changes no row of another employee or another date.
C9_ApproveWritesExactlyTheRange ==
    [][ (resp'.op = "approve_leave" /\ resp'.outcome = "Approved")
        => LET req   == leave[resp'.id]
               range == req.start_date .. req.end_date
               keys  == {<<req.employee, d>> : d \in range}
           IN  /\ \A d \in range :
                     /\ <<req.employee, d>> \in DOMAIN attendance'
                     /\ attendance'[<<req.employee, d>>].status = "LEAVE"
               /\ resp'.writes = keys
               /\ Cardinality(resp'.writes)
                     = (IF req.end_date >= req.start_date
                        THEN req.end_date - req.start_date + 1 ELSE 0)
               /\ DOMAIN attendance' = DOMAIN attendance \cup keys
               /\ \A k \in DOMAIN attendance \ keys : attendance'[k] = attendance[k]
               /\ \A k \in DOMAIN attendance \cap keys :
                     attendance'[k] = [attendance[k] EXCEPT !.status = "LEAVE"] ]_vars

\* C9 witness: a two-day leave was approved over a day with a recorded
\* check-in, while the other user has an attendance row of her own.
C9_Witness ==
    /\ resp.op = "approve_leave"
    /\ resp.outcome = "Approved"
    /\ Cardinality(resp.writes) = 2
    /\ \E k \in resp.writes :
          attendance[k].check_in_time # NoTime /\ attendance[k].status = "LEAVE"
    /\ \E k \in DOMAIN attendance :
          k[1] # leave[resp.id].employee /\ attendance[k].status # "LEAVE"

\* C10: a decided leave request never changes again: its status, approver
\* and comments stay as the first decision set them.
C10_DecisionIsFinal ==
    [][ \A i \in DOMAIN leave :
           leave[i].status # "PENDING" => leave'[i] = leave[i] ]_vars

\* C11: approve_leave_view on a request that is already Approved or Rejected
\* answers AlreadyDecided and changes neither the request nor any attendance
\* row: a row of the range that a check-in or check-out changed after the
\* first decision keeps its status.
C11_DecidedApproveRefused ==
    [][ (/\ resp'.op = "approve_leave"
         /\ is_authenticated(resp'.sess)
         /\ is_admin(session[resp'.sess].auth)
         /\ resp'.id \in DOMAIN leave
         /\ leave[resp'.id].status # "PENDING")
        => /\ resp'.outcome = "AlreadyDecided"
           /\ attendance' = attendance
           /\ leave' = leave ]_vars

\* C12: every stored leave request has end_date >= start_date: a submission
\* with the end before the start is rejected and stores nothing.
C12_StoredRangesOrdered ==
    \A i \in DOMAIN leave : leave[i].end_date >= leave[i].start_date

(***************************************************************************)
(* Properties of payroll generation (SpecPay).                             *)
(***************************************************************************)

\* The employee has a salary structure with a base-salary value.
C13_HasBaseSalary(e) ==
    /\ e \in DOMAIN profile
    /\ "base_salary" \in DOMAIN profile[e].salary_structure

\* The row repeats the amounts of the employee's current salary structure.
C13_CopiesStructure(r) ==
    LET st == profile[r.employee].salary_structure
    IN  /\ r.base_salary = st["base_salary"]
        /\ r.allowances = (IF "allowances" \in DOMAIN st THEN st["allowances"] ELSE 0)
        /\ r.deductions = (IF "deductions" \in DOMAIN st THEN st["deductions"] ELSE 0)

\* C13: a completed generate(month, year) leaves exactly one Payroll row per
\* (employee, month, year) for each employee having a base salary, with
\* base, allowances, deductions and net equal to the values of the current
\* salary structure, and leaves every other row as it was; so a second run
\* with unchanged inputs leaves the table as the first run left it.
C13_GenerateIsIdempotentUpsert ==
    [][ (resp'.op = "generate_payroll" /\ resp'.outcome = "Generated")
        => LET m == resp'.month
               y == resp'.year
               written(r) == C13_HasBaseSalary(r.employee) /\ r.month = m /\ r.year = y
           IN  /\ \A e \in Employees :
                      C13_HasBaseSalary(e) =>
                        LET rows == {r \in payroll' :
                                        r.employee = e /\ r.month = m /\ r.year = y}
                        IN  /\ Cardinality(rows) = 1
                            /\ \A r \in rows :
                                  /\ C13_CopiesStructure(r)
                                  /\ r.net_salary
                                        = r.base_salary + r.allowances - r.deductions
               /\ {r \in payroll' : ~written(r)} = {r \in payroll : ~written(r)}
               /\ \A r1, r2 \in payroll' :
                      (r1.employee = r2.employee /\ r1.month = r2.month
                          /\ r1.year = r2.year) => r1 = r2 ]_vars

\* C14: every stored Payroll row has
\* net_salary = base_salary + allowances - deductions.
C14_NetSalaryDerived ==
    \A r \in payroll : r.net_salary = r.base_salary + r.allowances - r.deductions

\* C18: a generate run by an admin ends without an error, counts and writes
\* the row of exactly the employees whose salary structure has a base
\* salary, and creates or changes no row of any other employee.
C18_SkipsWithoutBaseSalary ==
    [][ (/\ resp'.op = "generate_payroll"
         /\ is_authenticated(resp'.sess)
         /\ is_admin(session[resp'.sess].auth))
        => /\ resp'.outcome = "Generated"
           /\ resp'.count = Cardinality({e \in Employees : C13_HasBaseSalary(e)})
           /\ \A e \in Employees :
                  IF C13_HasBaseSalary(e)
                  THEN \E r \in payroll' :
                          /\ r.employee = e
                          /\ r.month = resp'.month
                          /\ r.year = resp'.year
                          /\ C13_CopiesStructure(r)
                  ELSE {r \in payroll' : r.employee = e}
                          = {r \in payroll : r.employee = e} ]_vars

(***************************************************************************)
(* Properties of the role gate (SpecGate).                                 *)
(***************************************************************************)

\* The operations behind admin_required that write.
C15_AdminOperations ==
    {"add_user", "edit_employee", "approve_leave", "reject_leave",
     "update_salary", "generate_payroll"}

\* The stored tables.
C15_Tables == <<employee_ids, new_id, attendance, leave, profile, payroll>>

\* C15: an operation behind the role gate changes the tables only for a
\* logged-in session; an admin-only operation requested by an employee
\* changes nothing and redirects to the employee dashboard, and the
\* employee-only dashboard requested by an admin redirects to the admin
\* dashboard.
C15_RoleGate ==
    [][ (resp'.op \in C15_AdminOperations \cup {"employee_dashboard"})
        => LET user == session[resp'.sess].auth
           IN  /\ user = None
                    => (resp'.outcome = "RedirectLogin" /\ C15_Tables' = C15_Tables)
               /\ (user # None /\ Role(user) = "EMPLOYEE" /\ resp'.op \in C15_AdminOperations)
                    => (resp'.outcome = "RedirectEmployeeDashboard" /\ C15_Tables' = C15_Tables)
               /\ (user # None /\ Role(user) = "ADMIN" /\ resp'.op = "employee_dashboard")
                    => (resp'.outcome = "RedirectAdminDashboard" /\ C15_Tables' = C15_Tables)
               /\ C15_Tables' # C15_Tables => (user # None /\ Role(user) = "ADMIN") ]_vars

\* C15 witness: the employee asked for a payroll run while an employee has a
\* base salary and a leave request is undecided; the answer was the redirect
\* to the employee dashboard and no payroll row exists.
C15_Witness ==
    /\ resp.op = "generate_payroll"
    /\ resp.outcome = "RedirectEmployeeDashboard"
    /\ session[resp.sess].auth = "emp"
    /\ \E e \in Employees : C13_HasBaseSalary(e)
    /\ payroll = {}
    /\ \E i \in DOMAIN leave : leave[i].status = "PENDING"

(***************************************************************************)
(* Properties of concurrent attendance requests (SpecAttRace).             *)
(***************************************************************************)

\* C16: under any interleaving of check-in requests and leave approvals the
\* Attendance table has at most one row per (employee, date), and no request
\* ends in a storage error: a request that lost the race to insert ends as
\* AlreadyCheckedIn or with an update of the existing row.
C16_OneRowPerEmployeeAndDate ==
    /\ \A r1, r2 \in att_rows :
          (r1.employee = r2.employee /\ r1.date = r2.date) => r1 = r2
    /\ \A p \in Procs :
          /\ pc[p] \notin {"IntegrityError", "MultipleObjectsReturned"}
          /\ pc[p] = "done"
                => inflight[p].outcome \in {"CheckedIn", "AlreadyCheckedIn", "Approved"}
          /\ (pc[p] = "done" /\ inflight[p].lost)
                => \E r \in att_rows :
                      /\ r.employee = inflight[p].employee
                      /\ r.date = inflight[p].date
                      /\ r.pk = inflight[p].row.pk

\* C16 witness: a check-in that found no row, lost the insert to a
\* concurrent check-in of the same employee, and was answered
\* AlreadyCheckedIn; the table holds the one row of the winner.
C16_Witness ==
    \E p, q \in Procs :
        /\ p # q
        /\ pc[p] = "done" /\ pc[q] = "done"
        /\ inflight[p].kind = "check_in" /\ inflight[q].kind = "check_in"
        /\ inflight[p].employee = inflight[q].employee
        /\ inflight[p].lost
        /\ inflight[p].outcome = "AlreadyCheckedIn"
        /\ inflight[q].outcome = "CheckedIn"
        /\ Cardinality(att_rows) = 1

(***************************************************************************)
(* Further properties of attendance (SpecAtt), of the login flow           *)
(* (SpecAuth) and of provisioning (SpecProv).                              *)
(***************************************************************************)

\* C17: every attendance row with a check-in time and a check-out time has
\* check_out_time >= check_in_time.
C17_CheckOutNotBeforeCheckIn ==
    \A k \in DOMAIN attendance :
        (attendance[k].check_in_time # NoTime /\ attendance[k].check_out_time # NoTime)
            => attendance[k].check_out_time >= attendance[k].check_in_time

C20_SequentialIdsUnique ==
    (resp.op = "add_user" /\ resp.outcome \in {"Created", "IntegrityError"})
        => /\ resp.id \notin resp.before
           /\ resp.outcome = "Created"

\* C21: per (employee, date) the Attendance row only moves forward,
\* NoRecord -> CheckedIn -> CheckedOut.  Over every step of check_in,
\* check_out and approve_leave no row disappears, a check-in time that is
\* set keeps its value, a check-out time that is set keeps its value, and
\* no row ever holds a check-out time without a check-in time.
C21_AttendanceMovesForward ==
    [][ /\ \A k \in DOMAIN attendance :
            /\ k \in DOMAIN attendance'
            /\ attendance[k].check_in_time # NoTime
                  => attendance'[k].check_in_time = attendance[k].check_in_time
            /\ attendance[k].check_out_time # NoTime
                  => attendance'[k].check_out_time = attendance[k].check_out_time
        /\ \A k \in DOMAIN attendance' :
            attendance'[k].check_out_time # NoTime
                  => attendance'[k].check_in_time # NoTime ]_vars

\* A checked-out row of a day inside the approved range, right after the
\* approval wrote that day: both recorded times are still there.
C21_Witness ==
    /\ resp.op = "approve_leave"
    /\ resp.outcome = "Approved"
    /\ \E k \in resp.writes :
        /\ k \in DOMAIN attendance
        /\ attendance[k].check_in_time # NoTime
        /\ attendance[k].check_out_time # NoTime

\* C22: check_in on a day whose Attendance row exists without a check-in
\* time (such as the row an approval created with status LEAVE) succeeds:
\* the row gets the time just read as its check-in time and status PRESENT,
\* its check-out time stays as it was, and no other row changes.
C22_CheckInOnRowWithoutCheckIn ==
    [][ \A s \in Sessions :
          LET k == <<session[s].auth, DateOf(now)>> IN
          ( /\ resp'.op = "check_in"
            /\ resp'.sess = s
            /\ is_authenticated(s)
            /\ k \in DOMAIN attendance
            /\ attendance[k].check_in_time = NoTime )
          => /\ resp'.outcome = "CheckedIn"
             /\ DOMAIN attendance' = DOMAIN attendance
             /\ attendance'[k].check_in_time = TimeOf(now')
             /\ attendance'[k].status = "PRESENT"
             /\ attendance'[k].check_out_time = attendance[k].check_out_time
             /\ \A j \in DOMAIN attendance \ {k} : attendance'[j] = attendance[j]
      ]_vars

\* The employee has just checked in on a day that an approved leave
\* request covers: the row of that day is PRESENT, not LEAVE.
C22_Witness ==
    /\ resp.op = "check_in"
    /\ resp.outcome = "CheckedIn"
    /\ resp.key \in DOMAIN attendance
    /\ attendance[resp.key].status = "PRESENT"
    /\ attendance[resp.key].check_in_time # NoTime
    /\ \E i \in DOMAIN leave :
        /\ leave[i].status = "APPROVED"
        /\ leave[i].employee = resp.key[1]
        /\ leave[i].start_date <= resp.key[2]
        /\ resp.key[2] <= leave[i].end_date

\* C23: an approval changes only the status of the Attendance rows that
\* already exist in the request's date range: each such row keeps its
\* check-in and check-out times and gets status LEAVE, so a row can hold
\* LEAVE together with recorded times.  A later check_out on a checked-in
\* row whose status is LEAVE succeeds: it records the check-out time, keeps
\* the check-in time and replaces LEAVE with the status that follows from
\* the hours worked.
C23_ApproveKeepsTimesAndCheckOutStillWorks ==
    [][ /\ (resp'.op = "approve_leave" /\ resp'.outcome = "Approved")
            => LET req == leave[resp'.id] IN
               \A k \in DOMAIN attendance :
                  ( /\ k[1] = req.employee
                    /\ req.start_date <= k[2]
                    /\ k[2] <= req.end_date )
                  => /\ attendance'[k].check_in_time = attendance[k].check_in_time
                     /\ attendance'[k].check_out_time = attendance[k].check_out_time
                     /\ attendance'[k].status = "LEAVE"
        /\ \A s \in Sessions :
            LET k == <<session[s].auth, DateOf(now)>> IN
            ( /\ resp'.op = "check_out"
              /\ resp'.sess = s
              /\ is_authenticated(s)
              /\ k \in DOMAIN attendance
              /\ attendance[k].status = "LEAVE"
              /\ attendance[k].check_in_time # NoTime
              /\ attendance[k].check_out_time = NoTime )
            => /\ resp'.outcome = "CheckedOut"
               /\ attendance'[k].check_in_time = attendance[k].check_in_time
               /\ attendance'[k].check_out_time = TimeOf(now')
               /\ attendance'[k].status =
                      IF resp'.hours >= 800 THEN "PRESENT"
                      ELSE IF resp'.hours >= 400 THEN "HALF_DAY"
                      ELSE "ABSENT"
      ]_vars

\* An approval has just written a day on which the employee had checked in
\* and not yet checked out: the row holds LEAVE together with its check-in
\* time.
C23_Witness ==
    /\ resp.op = "approve_leave"
    /\ resp.outcome = "Approved"
    /\ \E k \in resp.writes :
        /\ k \in DOMAIN attendance
        /\ attendance[k].status = "LEAVE"
        /\ attendance[k].check_in_time # NoTime
        /\ attendance[k].check_out_time = NoTime
====
